---------------------------- MODULE Spec2Model ----------------------------
(***************************************************************************)
(* Model of naive_neurosym.py: the round trip                              *)
(*   User > LLM > Prolog > LLM > User                                      *)
(* driven by interactive_loop.  Texts are sequences of one-character       *)
(* strings, so that split, strip, join and the `in` test are computed as   *)
(* Python computes them.                                                   *)
(***************************************************************************)
EXTENDS Integers, Sequences, FiniteSets, TLC

(***************************************************************************)
(* Bounds of the model.                                                    *)
(***************************************************************************)
MaxRounds == 2
MaxTime == 2
TicksPerSecond == 2
MaxChunks == 4
MaxAnswers == 2
MaxListLen == 2

(***************************************************************************)
(* Texts.                                                                  *)
(***************************************************************************)
Chars(s) == [i \in 1..Len(s) |-> SubSeq(s, i, i)]

\* The backquote character (a TLA+ string cannot hold it).
Backtick == "BQ"

FENCE == <<Backtick, Backtick, Backtick>>

TAG == FENCE \o Chars("prolog")

Whitespace == {" ", "\n", "\t", "\r"}

MinCodeLen == 20

None == <<"<None>">>

NoPath == -1

NEUTRAL == Chars("Program consulted successfully. Check prolog_programs directory for generated code.")

ERRPFX == Chars("Prolog execution error: ")

\* sep occurs in s at index i
IsAt(s, sep, i) ==
    /\ i >= 1
    /\ i + Len(sep) - 1 <= Len(s)
    /\ SubSeq(s, i, i + Len(sep) - 1) = sep

\* Python: sep in s
Contains(s, sep) == \E i \in 1..Len(s) : IsAt(s, sep, i)

\* Python: s.find(sep) as a 1-based index, 0 when absent
Find(s, sep) ==
    IF Contains(s, sep)
    THEN CHOOSE i \in 1..Len(s) : IsAt(s, sep, i) /\ \A j \in 1..(i - 1) : ~IsAt(s, sep, j)
    ELSE 0

\* Python: s.split(sep)
RECURSIVE Split(_, _)
Split(s, sep) ==
    LET i == Find(s, sep)
    IN IF i = 0
       THEN <<s>>
       ELSE <<SubSeq(s, 1, i - 1)>> \o Split(SubSeq(s, i + Len(sep), Len(s)), sep)

RECURSIVE LStrip(_)
LStrip(s) == IF s # <<>> /\ Head(s) \in Whitespace THEN LStrip(Tail(s)) ELSE s

RECURSIVE RStrip(_)
RStrip(s) ==
    IF s # <<>> /\ s[Len(s)] \in Whitespace THEN RStrip(SubSeq(s, 1, Len(s) - 1)) ELSE s

\* Python: s.strip()
Strip(s) == RStrip(LStrip(s))

\* Python: sep.join(lines)
RECURSIVE Join(_, _)
Join(sep, lines) ==
    IF lines = <<>> THEN <<>>
    ELSE IF Len(lines) = 1 THEN lines[1]
    ELSE lines[1] \o sep \o Join(sep, Tail(lines))

(***************************************************************************)
(* prompt_to_prolog: extraction of the code from the completion text.      *)
(***************************************************************************)
\* ExtractCode that tries the generic marker before the tagged one
ExtractCodeGenericFirst(content) ==
    LET cut ==
            IF Contains(content, FENCE)
            THEN LET parts == Split(content, FENCE)
                 IN IF Len(parts) > 1
                    THEN Strip(Split(parts[2], FENCE)[1])
                    ELSE content
            ELSE IF Contains(content, TAG)
            THEN LET parts == Split(content, TAG)
                 IN IF Len(parts) > 1
                    THEN Strip(Split(parts[2], FENCE)[1])
                    ELSE content
            ELSE content
    IN Strip(cut)

\* ExtractCode without the final strip
ExtractCodeNoStrip(content) ==
    IF Contains(content, TAG)
    THEN LET parts == Split(content, TAG)
         IN IF Len(parts) > 1 THEN Strip(Split(parts[2], FENCE)[1]) ELSE content
    ELSE IF Contains(content, FENCE)
    THEN LET parts == Split(content, FENCE)
         IN IF Len(parts) > 1 THEN Strip(Split(parts[2], FENCE)[1]) ELSE content
    ELSE content

ExtractCode(content) ==
    LET cut ==
            IF Contains(content, TAG)
            THEN LET parts == Split(content, TAG)
                 IN IF Len(parts) > 1
                    THEN Strip(Split(parts[2], FENCE)[1])
                    ELSE content
            ELSE IF Contains(content, FENCE)
            THEN LET parts == Split(content, FENCE)
                 IN IF Len(parts) > 1
                    THEN Strip(Split(parts[2], FENCE)[1])
                    ELSE content
            ELSE content
    IN Strip(cut)

\* PromptToPrologReturn with the length test left out
PromptToPrologReturnNoMinimum(resp) ==
    IF resp.status # "ok"
    THEN None
    ELSE LET code == ExtractCode(resp.content)
         IN IF code = <<>> THEN None ELSE code

\* What prompt_to_prolog returns for the outcome resp of ollama.chat:
\* resp.status is "ok" (resp.content is the text), "raise" or "malformed".
PromptToPrologReturn(resp) ==
    IF resp.status # "ok"
    THEN None
    ELSE LET code == ExtractCode(resp.content)
         IN IF code = <<>> \/ Len(code) < MinCodeLen THEN None ELSE code

(***************************************************************************)
(* Values bound by the engine, as pyswip hands them to Python: an atom is  *)
(* a str, an integer an int, a Prolog list a list.                         *)
(***************************************************************************)
PyAtom(s) == [t |-> "atom", v |-> Chars(s)]

PyInt(n) == [t |-> "int", v |-> n]

PyList(xs) == [t |-> "list", v |-> xs]

Digit(d) == SubSeq("0123456789", d + 1, d + 1)

\* Python: str(n) for n >= 0
RECURSIVE IntStr(_)
IntStr(n) == IF n < 10 THEN <<Digit(n)>> ELSE IntStr(n \div 10) \o <<Digit(n % 10)>>

\* Python: repr(x), which str(list) applies to the elements
RECURSIVE PyRepr(_)
PyRepr(x) ==
    IF x.t = "atom" THEN <<"'">> \o x.v \o <<"'">>
    ELSE IF x.t = "int" THEN IntStr(x.v)
    ELSE <<"[">> \o Join(<<",", " ">>, [i \in 1..Len(x.v) |-> PyRepr(x.v[i])]) \o <<"]">>

\* Python: str(x)
PyStr(x) == IF x.t = "atom" THEN x.v ELSE PyRepr(x)

(***************************************************************************)
(* execute_prolog: formatting of the answers of solve(Solution).           *)
(***************************************************************************)
\* ResultLines with a list rendered as one value
ResultLinesNoExpand(result) ==
    IF "Solution" \in DOMAIN result THEN <<PyStr(result.Solution)>> ELSE <<>>

\* lines 314-321 for one answer
ResultLines(result) ==
    IF "Solution" \in DOMAIN result
    THEN LET solution == result.Solution
         IN IF solution.t = "list"
            THEN [i \in 1..Len(solution.v) |-> PyStr(solution.v[i])]
            ELSE <<PyStr(solution)>>
    ELSE <<>>

\* OutputLines that stops after the first answer
OutputLinesFirstOnly(results) ==
    IF results = <<>> THEN <<>> ELSE ResultLines(Head(results))

\* lines 312-321: output_lines after the loop over results
RECURSIVE OutputLines(_)
OutputLines(results) ==
    IF results = <<>> THEN <<>>
    ELSE ResultLines(Head(results)) \o OutputLines(Tail(results))

\* ExecutePrologReturn without the fall-through to the neutral text
ExecutePrologReturnNoFallback(consult, q) ==
    IF consult.status = "raise"
    THEN ERRPFX \o consult.diag
    ELSE IF q.status = "ok" THEN Join(<<"\n">>, OutputLines(q.answers)) ELSE NEUTRAL

\* ExecutePrologReturn without the inner try: a query error reaches the
\* outer handler
ExecutePrologReturnNoInnerTry(consult, q) ==
    IF consult.status = "raise" \/ q.status = "raise"
    THEN ERRPFX \o consult.diag
    ELSE IF q.answers # <<>> /\ OutputLines(q.answers) # <<>>
         THEN Join(<<"\n">>, OutputLines(q.answers))
         ELSE NEUTRAL

\* What execute_prolog returns: consult is the outcome of prolog.consult
\* (status "ok" or "raise" with the diagnostic diag), q the outcome of
\* list(prolog.query("solve(Solution)")) (status "ok" with answers, or "raise").
ExecutePrologReturn(consult, q) ==
    IF consult.status = "raise"
    THEN ERRPFX \o consult.diag
    ELSE IF q.status = "ok" /\ q.answers # <<>> /\ OutputLines(q.answers) # <<>>
         THEN Join(<<"\n">>, OutputLines(q.answers))
         ELSE NEUTRAL

\* ResultToTextReturn that drops the outcome when the call fails
ResultToTextReturnLossy(result, resp) ==
    IF resp.status = "ok" THEN resp.content ELSE <<>>

\* Python: result_to_text's return for the outcome resp of ollama.chat
ResultToTextReturn(result, resp) ==
    IF resp.status = "ok" THEN resp.content ELSE result

(***************************************************************************)
(* The programs the completion service generates in the loop, and what     *)
(* the engine answers to solve(Solution) once they are consulted.          *)
(***************************************************************************)
ProgList == Chars("solve([alice, bob]).")

ProgTwo == Chars("solve(red). solve(blue).")

ProgNoSolve == Chars("likes(alice, prolog).")

ProgFail == Chars("solve(X) :- member(X, []).")

DefinesSolve(code) == code \in {ProgList, ProgTwo, ProgFail}

SolveAnswers(code) ==
    IF code = ProgList THEN <<[Solution |-> PyList(<<PyAtom("alice"), PyAtom("bob")>>)]>>
    ELSE IF code = ProgTwo THEN <<[Solution |-> PyAtom("red")], [Solution |-> PyAtom("blue")]>>
    ELSE <<>>

QueryRaise == [status |-> "raise", answers |-> <<>>]

NotQueried == [status |-> "none", answers |-> <<>>]

\* The outcomes of prolog.query("solve(Solution)") against the knowledge
\* base kb (the consulted files and their programs, oldest first).  A
\* consulted file that defines solve/1 replaces the clauses of an earlier
\* file; without any definition the query raises an existence error.
EngineQuery(kb) ==
    LET defs == {i \in 1..Len(kb) : DefinesSolve(kb[i].code)}
    IN IF defs = {}
       THEN {QueryRaise}
       ELSE LET last == CHOOSE i \in defs : \A j \in defs : j <= i
            IN {[status |-> "ok", answers |-> SolveAnswers(kb[last].code)], QueryRaise}

ConsultOutcomes == {[status |-> "ok", diag |-> <<>>], [status |-> "raise", diag |-> Chars("E1")]}

(***************************************************************************)
(* Inputs of the loop.                                                     *)
(***************************************************************************)
Ok(text) == [status |-> "ok", content |-> text]

ChatRaise == [status |-> "raise", content |-> <<>>]

ChatMalformed == [status |-> "malformed", content |-> <<>>]

NoResponse == [status |-> "none", content |-> <<>>]

GenResponses ==
    { ChatRaise, ChatMalformed,
      Ok(Chars("Sure! ") \o TAG \o <<"\n">> \o ProgList \o <<"\n">> \o FENCE \o Chars(" Done.")),
      Ok(FENCE \o <<"\n">> \o ProgTwo \o <<"\n">> \o FENCE),
      Ok(Chars("  ") \o ProgNoSolve \o <<"\n">>),
      Ok(TAG \o ProgFail),
      Ok(TAG \o Chars(" solve(a). ") \o FENCE),
      Ok(FENCE \o FENCE \o ProgList) }

InterpResponses == {ChatRaise, ChatMalformed, Ok(Chars("Alice, then Bob."))}

UpperLetters == "ABCDEFGHIJKLMNOPQRSTUVWXYZ"

LowerLetters == "abcdefghijklmnopqrstuvwxyz"

LowerChar(c) ==
    IF \E k \in 1..26 : SubSeq(UpperLetters, k, k) = c
    THEN LET k == CHOOSE k \in 1..26 : SubSeq(UpperLetters, k, k) = c
         IN SubSeq(LowerLetters, k, k)
    ELSE c

\* Lower that leaves the text as it is
LowerNone(s) == s

\* Python: s.lower()
Lower(s) == [i \in 1..Len(s) |-> LowerChar(s[i])]

ExitTokens == {Chars("exit"), Chars("quit"), Chars("q")}

\* What input("> ") does: returns a line, or raises KeyboardInterrupt, or
\* raises another exception (EOFError at end of input).
InputOutcomes ==
    { [status |-> "interrupt", line |-> <<>>],
      [status |-> "error", line |-> <<>>],
      [status |-> "ok", line |-> <<>>],
      [status |-> "ok", line |-> Chars("  \t")],
      [status |-> "ok", line |-> Chars("exit")],
      [status |-> "ok", line |-> Chars(" QUIT ")],
      [status |-> "ok", line |-> Chars("Q")],
      [status |-> "ok", line |-> Chars(" Who lies? ")],
      [status |-> "ok", line |-> Chars("quit it")] }

\* datetime.now().strftime("%Y%m%d_%H%M%S"): the clock cut to whole seconds
Timestamp(t) == t \div TicksPerSecond

(***************************************************************************)
(* State.                                                                  *)
(*   pc          where interactive_loop stands                             *)
(*   last_read   what the last input("> ") gave                            *)
(*   line_read   the line the last input("> ") returned, None if it raised *)
(*   user_input, prolog_code, filepath, prolog_result,                     *)
(*   natural_language_result      the locals of interactive_loop           *)
(*   gen_response, interp_response, query   what ollama.chat and           *)
(*               prolog.query returned in the current round                *)
(*   files       the files under PROLOG_DIR, by the timestamp in the name  *)
(*   kb          the files the global prolog engine holds, each with the   *)
(*               program loaded from it, oldest first                      *)
(*   now         the wall clock, in ticks                                  *)
(*   rounds      the number of round trips started                         *)
(*   log         the external calls made in the current round, in order    *)
(*   status      how the current round stands                              *)
(***************************************************************************)
VARIABLES pc, last_read, line_read, user_input, gen_response, prolog_code, filepath,
          query, prolog_result, interp_response, natural_language_result,
          files, kb, now, rounds, log, status

vars == <<pc, last_read, line_read, user_input, gen_response, prolog_code, filepath,
          query, prolog_result, interp_response, natural_language_result,
          files, kb, now, rounds, log, status>>

locals == <<gen_response, prolog_code, filepath, query, prolog_result,
            interp_response, natural_language_result>>

NoFiles == [t \in {} |-> <<>>]

Init ==
    /\ pc = "AwaitProblem"
    /\ last_read = "none"
    /\ line_read = None
    /\ user_input = <<>>
    /\ gen_response = NoResponse
    /\ prolog_code = None
    /\ filepath = NoPath
    /\ query = NotQueried
    /\ prolog_result = None
    /\ interp_response = NoResponse
    /\ natural_language_result = None
    /\ files = NoFiles
    /\ kb = <<>>
    /\ now = 0
    /\ rounds = 0
    /\ log = <<>>
    /\ status = "Idle"

\* ReadInput in a loop without the handler for exceptions of input()
ReadInputErrorExits(inp) ==
    /\ pc = "AwaitProblem"
    /\ IF inp.status = "interrupt"
       THEN /\ pc' = "Terminated"
            /\ last_read' = "interrupt"
            /\ line_read' = None
            /\ UNCHANGED <<user_input, locals, rounds, log, status>>
       ELSE IF inp.status = "error"
       THEN /\ pc' = "Terminated"
            /\ last_read' = "error"
            /\ line_read' = None
            /\ UNCHANGED <<user_input, locals, rounds, log, status>>
       ELSE LET line == Strip(inp.line)
            IN IF Lower(line) \in ExitTokens
               THEN /\ pc' = "Terminated"
                    /\ last_read' = "exit"
                    /\ line_read' = inp.line
                    /\ user_input' = line
                    /\ UNCHANGED <<locals, rounds, log, status>>
               ELSE IF line = <<>>
               THEN /\ last_read' = "empty"
                    /\ line_read' = inp.line
                    /\ user_input' = line
                    /\ UNCHANGED <<pc, locals, rounds, log, status>>
               ELSE /\ rounds < MaxRounds
                    /\ pc' = "Generating"
                    /\ last_read' = "problem"
                    /\ line_read' = inp.line
                    /\ user_input' = line
                    /\ gen_response' = NoResponse
                    /\ prolog_code' = None
                    /\ filepath' = NoPath
                    /\ query' = NotQueried
                    /\ prolog_result' = None
                    /\ interp_response' = NoResponse
                    /\ natural_language_result' = None
                    /\ rounds' = rounds + 1
                    /\ log' = <<>>
                    /\ status' = "Running"
    /\ UNCHANGED <<files, kb, now>>

\* lines 362-377: one pass over the head of the loop for the outcome inp of
\* input("> ").  The locals of the previous pass are dead when a round
\* starts and are cleared there.
ReadInput(inp) ==
    /\ pc = "AwaitProblem"
    /\ IF inp.status = "interrupt"
       THEN /\ pc' = "Terminated"
            /\ last_read' = "interrupt"
            /\ line_read' = None
            /\ UNCHANGED <<user_input, locals, rounds, log, status>>
       ELSE IF inp.status = "error"
       THEN /\ last_read' = "error"
            /\ line_read' = None
            /\ UNCHANGED <<pc, user_input, locals, rounds, log, status>>
       ELSE LET line == Strip(inp.line)
            IN IF Lower(line) \in ExitTokens
               THEN /\ pc' = "Terminated"
                    /\ last_read' = "exit"
                    /\ line_read' = inp.line
                    /\ user_input' = line
                    /\ UNCHANGED <<locals, rounds, log, status>>
               ELSE IF line = <<>>
               THEN /\ last_read' = "empty"
                    /\ line_read' = inp.line
                    /\ user_input' = line
                    /\ UNCHANGED <<pc, locals, rounds, log, status>>
               ELSE /\ rounds < MaxRounds
                    /\ pc' = "Generating"
                    /\ last_read' = "problem"
                    /\ line_read' = inp.line
                    /\ user_input' = line
                    /\ gen_response' = NoResponse
                    /\ prolog_code' = None
                    /\ filepath' = NoPath
                    /\ query' = NotQueried
                    /\ prolog_result' = None
                    /\ interp_response' = NoResponse
                    /\ natural_language_result' = None
                    /\ rounds' = rounds + 1
                    /\ log' = <<>>
                    /\ status' = "Running"
    /\ UNCHANGED <<files, kb, now>>

\* PromptToProlog that keeps the text of the completion in a file
PromptToPrologKeepsDraft(resp) ==
    /\ pc = "Generating"
    /\ gen_response' = resp
    /\ prolog_code' = PromptToPrologReturn(resp)
    /\ log' = Append(log, "generate")
    /\ files' = (Timestamp(now) :> resp.content) @@ files
    /\ IF prolog_code' = None
       THEN pc' = "AwaitProblem" /\ status' = "Aborted"
       ELSE pc' = "Persisting" /\ status' = status
    /\ UNCHANGED <<last_read, line_read, user_input, filepath, query, prolog_result,
                   interp_response, natural_language_result, kb, now, rounds>>

\* PromptToProlog in a loop that asks the completion service again when
\* no code came back
PromptToPrologRetry(resp) ==
    /\ pc = "Generating"
    /\ Len(log) < 2
    /\ gen_response' = resp
    /\ prolog_code' = PromptToPrologReturn(resp)
    /\ log' = Append(log, "generate")
    /\ pc' = IF prolog_code' = None THEN "Generating" ELSE "Persisting"
    /\ UNCHANGED <<last_read, line_read, user_input, filepath, query, prolog_result,
                   interp_response, natural_language_result, files, kb, now, rounds, status>>

\* lines 379-383: prompt_to_prolog(user_input) for the outcome resp of
\* ollama.chat, and the test on what it returns.
PromptToProlog(resp) ==
    /\ pc = "Generating"
    /\ gen_response' = resp
    /\ prolog_code' = PromptToPrologReturn(resp)
    /\ log' = Append(log, "generate")
    /\ IF prolog_code' = None
       THEN pc' = "AwaitProblem" /\ status' = "Aborted"
       ELSE pc' = "Persisting" /\ status' = status
    /\ UNCHANGED <<last_read, line_read, user_input, filepath, query, prolog_result,
                   interp_response, natural_language_result, files, kb, now, rounds>>

\* What is under PROLOG_DIR after save_prolog_code(code, filename): "ok"
\* wrote the file, "fail_open" raised in makedirs or open, "fail_write"
\* raised in f.write after open(filepath, 'w') had emptied the file.
FilesAfterSave(fs, name, code, outcome) ==
    IF outcome = "ok" THEN (name :> code) @@ fs
    ELSE IF outcome = "fail_write" THEN (name :> <<>>) @@ fs
    ELSE fs

SaveOutcomes == {"ok", "fail_open", "fail_write"}

\* SaveProlog in a loop that does not test what save_prolog_code returned
SavePrologNoCheck(outcome) ==
    /\ pc = "Persisting"
    /\ LET filename == Timestamp(now)
       IN /\ files' = FilesAfterSave(files, filename, prolog_code, outcome)
          /\ filepath' = IF outcome = "ok" THEN filename ELSE NoPath
    /\ log' = Append(log, "save")
    /\ pc' = "Executing"
    /\ UNCHANGED <<last_read, line_read, user_input, gen_response, prolog_code, query, prolog_result,
                   interp_response, natural_language_result, kb, now, rounds, status>>

\* SaveProlog in a loop that leaves when the file cannot be saved
SavePrologFatal(outcome) ==
    /\ pc = "Persisting"
    /\ LET filename == Timestamp(now)
       IN /\ files' = FilesAfterSave(files, filename, prolog_code, outcome)
          /\ filepath' = IF outcome = "ok" THEN filename ELSE NoPath
    /\ log' = Append(log, "save")
    /\ IF outcome = "ok"
       THEN pc' = "Executing" /\ status' = status
       ELSE pc' = "Terminated" /\ status' = "Aborted"
    /\ UNCHANGED <<last_read, line_read, user_input, gen_response, prolog_code, query, prolog_result,
                   interp_response, natural_language_result, kb, now, rounds>>

\* lines 385-391: the file name from the clock, save_prolog_code, and the
\* test on the path it returns.
SaveProlog(outcome) ==
    /\ pc = "Persisting"
    /\ LET filename == Timestamp(now)
       IN /\ files' = FilesAfterSave(files, filename, prolog_code, outcome)
          /\ filepath' = IF outcome = "ok" THEN filename ELSE NoPath
    /\ log' = Append(log, "save")
    /\ IF outcome = "ok"
       THEN pc' = "Executing" /\ status' = status
       ELSE pc' = "AwaitProblem" /\ status' = "Aborted"
    /\ UNCHANGED <<last_read, line_read, user_input, gen_response, prolog_code, query, prolog_result,
                   interp_response, natural_language_result, kb, now, rounds>>

\* The knowledge base after a consult into an engine made anew for the call
KbAfterConsultFresh(base, fs, path, consult) ==
    IF consult.status = "ok" THEN <<[file |-> path, code |-> fs[path]]>> ELSE base

\* The knowledge base after prolog.consult(filepath): the engine loads the
\* file, and a file it already holds is reloaded, which drops the clauses
\* it had loaded from that file before.
KbAfterConsult(base, fs, path, consult) ==
    IF consult.status = "ok"
    THEN Append(SelectSeq(base, LAMBDA e : e.file # path), [file |-> path, code |-> fs[path]])
    ELSE base

\* The calls execute_prolog makes to the engine
EngineCalls(consult) ==
    IF consult.status = "ok" THEN <<"consult", "query">> ELSE <<"consult">>

\* ExecuteProlog that issues the query whatever the load did
ExecutePrologQueryAnyway(consult, q) ==
    /\ pc = "Executing"
    /\ kb' = KbAfterConsult(kb, files, filepath, consult)
    /\ query' = q
    /\ prolog_result' = ExecutePrologReturn(consult, q)
    /\ log' = log \o <<"consult", "query">>
    /\ pc' = "Interpreting"
    /\ UNCHANGED <<last_read, line_read, user_input, gen_response, prolog_code, filepath,
                   interp_response, natural_language_result, files, now, rounds, status>>

\* ExecuteProlog in a loop that gives up the round when the load fails
ExecutePrologAborting(consult, q) ==
    /\ pc = "Executing"
    /\ kb' = KbAfterConsult(kb, files, filepath, consult)
    /\ query' = IF consult.status = "ok" THEN q ELSE NotQueried
    /\ prolog_result' = ExecutePrologReturn(consult, q)
    /\ log' = log \o EngineCalls(consult)
    /\ IF consult.status = "ok"
       THEN pc' = "Interpreting" /\ status' = status
       ELSE pc' = "AwaitProblem" /\ status' = "Aborted"
    /\ UNCHANGED <<last_read, line_read, user_input, gen_response, prolog_code, filepath,
                   interp_response, natural_language_result, files, now, rounds>>

\* line 394: execute_prolog(filepath) for the outcome consult of
\* prolog.consult and the outcome q of the query.
ExecuteProlog(consult, q) ==
    /\ pc = "Executing"
    /\ kb' = KbAfterConsult(kb, files, filepath, consult)
    /\ query' = IF consult.status = "ok" THEN q ELSE NotQueried
    /\ prolog_result' = ExecutePrologReturn(consult, q)
    /\ log' = log \o EngineCalls(consult)
    /\ pc' = "Interpreting"
    /\ UNCHANGED <<last_read, line_read, user_input, gen_response, prolog_code, filepath,
                   interp_response, natural_language_result, files, now, rounds, status>>

\* execute_prolog against the engine of the process
Execute ==
    /\ pc = "Executing"
    /\ \E consult \in ConsultOutcomes :
        \E q \in EngineQuery(KbAfterConsult(kb, files, filepath, consult)) :
            ExecuteProlog(consult, q)

\* line 397: result_to_text(prolog_result, user_input) for the outcome resp
\* of ollama.chat.
ResultToText(resp) ==
    /\ pc = "Interpreting"
    /\ interp_response' = resp
    /\ natural_language_result' = ResultToTextReturn(prolog_result, resp)
    /\ log' = Append(log, "interpret")
    /\ pc' = "Delivering"
    /\ UNCHANGED <<last_read, line_read, user_input, gen_response, prolog_code, filepath, query,
                   prolog_result, files, kb, now, rounds, status>>

\* lines 399-404: the solution is displayed
Deliver ==
    /\ pc = "Delivering"
    /\ log' = Append(log, "deliver")
    /\ status' = "Delivered"
    /\ pc' = "AwaitProblem"
    /\ UNCHANGED <<last_read, line_read, user_input, locals, files, kb, now, rounds>>

\* lines 406-409: Ctrl+C while a round is under way (no inner handler
\* catches KeyboardInterrupt)
Interrupt ==
    /\ pc \in {"Generating", "Persisting", "Executing", "Interpreting", "Delivering"}
    /\ pc' = "Terminated"
    /\ status' = "Interrupted"
    /\ UNCHANGED <<last_read, line_read, user_input, locals, files, kb, now, rounds, log>>

\* The wall clock advances
Tick ==
    /\ now < MaxTime
    /\ now' = now + 1
    /\ UNCHANGED <<pc, last_read, line_read, user_input, locals, files, kb, rounds, log, status>>

Read == \E inp \in InputOutcomes : ReadInput(inp)

Generate == \E resp \in GenResponses : PromptToProlog(resp)

Save == \E outcome \in SaveOutcomes : SaveProlog(outcome)

Interpret == \E resp \in InterpResponses : ResultToText(resp)

Next ==
    \/ Read
    \/ Generate
    \/ Save
    \/ Execute
    \/ Interpret
    \/ Deliver
    \/ Interrupt
    \/ Tick

Spec == Init /\ [][Next]_vars

(***************************************************************************)
(* prompt_to_prolog over all completion texts made of a few chunks.        *)
(***************************************************************************)
RECURSIVE Flatten(_)
Flatten(chunks) == IF chunks = <<>> THEN <<>> ELSE Head(chunks) \o Flatten(Tail(chunks))

Chunks == {TAG, FENCE, <<Backtick>>, Chars(" \n"), Chars("x"), ProgList}

ChunkTexts == {Flatten(cs) : cs \in UNION {[1..n -> Chunks] : n \in 0..MaxChunks}}

\* The loop after a problem was read (ReadInput), about to call prompt_to_prolog
InitExtract ==
    /\ pc = "Generating"
    /\ last_read = "problem"
    /\ line_read = Chars(" Who lies? ")
    /\ user_input = Chars("Who lies?")
    /\ gen_response = NoResponse
    /\ prolog_code = None
    /\ filepath = NoPath
    /\ query = NotQueried
    /\ prolog_result = None
    /\ interp_response = NoResponse
    /\ natural_language_result = None
    /\ files = NoFiles
    /\ kb = <<>>
    /\ now = 0
    /\ rounds = 1
    /\ log = <<>>
    /\ status = "Running"

GenerateAny == \E text \in ChunkTexts : PromptToProlog(Ok(text))

ExtractSpec == InitExtract /\ [][GenerateAny]_vars

(***************************************************************************)
(* execute_prolog over all the answers the engine can hand back.           *)
(***************************************************************************)
Elements == {PyAtom("a"), PyList(<<PyInt(12)>>)}

Scalars == {PyAtom("b"), PyAtom("c\nd"), PyInt(12)}

Values == Scalars \cup {PyList(xs) : xs \in UNION {[1..n -> Elements] : n \in 0..MaxListLen}}

\* An answer without the key 'Solution'
NoBinding == [Other |-> PyAtom("a")]

Answers == {[Solution |-> v] : v \in Values} \cup {NoBinding}

AllQueryOutcomes ==
    {QueryRaise} \cup
    {[status |-> "ok", answers |-> a] : a \in UNION {[1..n -> Answers] : n \in 0..MaxAnswers}}

\* The loop after the program was saved (SaveProlog), about to call execute_prolog
InitFormat ==
    /\ pc = "Executing"
    /\ last_read = "problem"
    /\ line_read = Chars(" Who lies? ")
    /\ user_input = Chars("Who lies?")
    /\ gen_response = Ok(TAG \o ProgList)
    /\ prolog_code = ProgList
    /\ filepath = 0
    /\ query = NotQueried
    /\ prolog_result = None
    /\ interp_response = NoResponse
    /\ natural_language_result = None
    /\ files = (0 :> ProgList)
    /\ kb = <<>>
    /\ now = 0
    /\ rounds = 1
    /\ log = <<"generate", "save">>
    /\ status = "Running"

ExecuteAny ==
    \E consult \in ConsultOutcomes : \E q \in AllQueryOutcomes : ExecuteProlog(consult, q)

FormatSpec == InitFormat /\ [][ExecuteAny]_vars

(***************************************************************************)
(* Properties.                                                             *)
(***************************************************************************)
Range(s) == {s[i] : i \in 1..Len(s)}

\* prolog.consult raised in the current round
LoadFailed == "consult" \in Range(log) /\ "query" \notin Range(log)

\* the completion call of result_to_text failed in the current round
InterpFailed == interp_response.status \in {"raise", "malformed"}

\* the round went on past execute_prolog and was not aborted
Continues ==
    /\ status \in {"Running", "Delivered", "Interrupted"}
    /\ pc \in {"Interpreting", "Delivering", "AwaitProblem", "Terminated"}
    /\ (pc \in {"Delivering", "AwaitProblem"} => "interpret" \in Range(log))
    /\ (pc = "AwaitProblem" => status = "Delivered")

\* s without its leading and trailing whitespace
Trimmed(s) ==
    LET solid == {k \in 1..Len(s) : s[k] \notin Whitespace}
    IN IF solid = {}
       THEN <<>>
       ELSE SubSeq(s, CHOOSE k \in solid : \A m \in solid : k <= m,
                      CHOOSE k \in solid : \A m \in solid : m <= k)

\* the minimum-length check on an extracted text
Checked(code) == IF Len(code) < MinCodeLen THEN None ELSE code

\* the outcome text for a list of lines
RenderLines(lines) == IF lines = <<>> THEN NEUTRAL ELSE Join(<<"\n">>, lines)

\* C1 as stated: after a load failure the round is aborted, the
\* Interpreting stage is not entered and nothing is delivered.
C1_LoadFailureAborts ==
    LoadFailed =>
        /\ pc # "Interpreting"
        /\ "interpret" \notin Range(log)
        /\ status # "Delivered"

\* C1 amended: after a load failure execute_prolog has returned the text
\* "Prolog execution error: <diagnostic>" as the outcome, and the round is
\* not aborted: it goes on to result_to_text and ends Delivered.
C1_LoadFailureInterpreted ==
    LoadFailed =>
        /\ \E c \in ConsultOutcomes : c.status = "raise" /\ prolog_result = ERRPFX \o c.diag
        /\ Continues

C1_Witness == LoadFailed /\ status = "Delivered" /\ pc = "AwaitProblem"

\* C2 as stated: with one or more answers the outcome is the rendering of
\* the first answer only.
C2_FirstAnswerOnly ==
    (query.status = "ok" /\ Len(query.answers) >= 1) =>
        prolog_result = RenderLines(ResultLines(query.answers[1]))

RECURSIVE LinesUpTo(_, _)
LinesUpTo(answers, n) ==
    IF n = 0 THEN <<>> ELSE LinesUpTo(answers, n - 1) \o ResultLines(answers[n])

\* C2 amended: with one or more answers the outcome holds the lines of
\* every answer, in the order of the answers (the neutral text when no
\* answer gives a line); with exactly one answer it is the rendering of
\* that answer.
C2_AllAnswers ==
    (query.status = "ok" /\ Len(query.answers) >= 1) =>
        /\ prolog_result = RenderLines(LinesUpTo(query.answers, Len(query.answers)))
        /\ (Len(query.answers) = 1 =>
                prolog_result = RenderLines(ResultLines(query.answers[1])))

C2_Witness ==
    /\ pc = "Interpreting"
    /\ query.status = "ok"
    /\ Len(query.answers) >= 2
    /\ ResultLines(query.answers[1]) # <<>>
    /\ ResultLines(query.answers[2]) # <<>>

\* the string forms of the elements of a bound value (of the value itself
\* when it is not a sequence)
ElementStrings(value) ==
    IF value.t = "list" THEN [i \in 1..Len(value.v) |-> PyStr(value.v[i])] ELSE <<PyStr(value)>>

SingleBinding ==
    /\ query.status = "ok"
    /\ Len(query.answers) = 1
    /\ "Solution" \in DOMAIN query.answers[1]

\* C3 as stated: a binding that is a sequence of N elements, N >= 0, gives
\* an outcome of exactly N lines, the i-th the string form of the i-th
\* element (no line at all for N = 0); another value gives one line.
C3_ExactlyNLines ==
    SingleBinding =>
        prolog_result = Join(<<"\n">>, ElementStrings(query.answers[1].Solution))

\* C3 amended: when the query yields one answer whose binding is a sequence
\* of N >= 1 elements, the outcome is the string forms of the elements
\* joined by line breaks (N lines, the i-th the string form of the i-th
\* element, when no string form is empty or holds a line break); a binding
\* that is the empty sequence gives the fixed neutral text.
C3_JoinedElements ==
    SingleBinding =>
        LET strs == ElementStrings(query.answers[1].Solution)
        IN IF strs = <<>>
           THEN prolog_result = NEUTRAL
           ELSE /\ prolog_result = Join(<<"\n">>, strs)
                /\ (\A i \in 1..Len(strs) : strs[i] # <<>> /\ "\n" \notin Range(strs[i]))
                       => Split(prolog_result, <<"\n">>) = strs

C3_Witness ==
    /\ pc = "Interpreting"
    /\ SingleBinding
    /\ query.answers[1].Solution.t = "list"
    /\ Len(query.answers[1].Solution.v) >= 2
    /\ Len(Split(prolog_result, <<"\n">>)) = Len(query.answers[1].Solution.v)

\* C4 as stated: a program file written by a round is never overwritten
\* or deleted afterwards (the file names of two persisting rounds differ).
C4_NeverOverwritten ==
    [][\A t \in DOMAIN files :
          files[t] # <<>> => (t \in DOMAIN files' /\ files'[t] = files[t])]_vars

\* the extracted text of the current round is empty or too short
ShortCode ==
    /\ gen_response.status = "ok"
    /\ Len(ExtractCode(gen_response.content)) < MinCodeLen

\* C5: when the extracted text is empty or shorter than 20 characters,
\* prompt_to_prolog returns None, the round makes no other call (no save,
\* no consult, no query, no interpretation) and the loop is back at
\* awaiting input.
C5_ShortCodeStops ==
    ShortCode =>
        /\ prolog_code = None
        /\ log = <<"generate">>
        /\ filepath = NoPath /\ query = NotQueried /\ interp_response = NoResponse
        /\ status = "Aborted"
        /\ \/ pc = "AwaitProblem"
           \/ pc = "Terminated" /\ last_read \in {"exit", "interrupt"}

C5_Witness == ShortCode /\ pc = "AwaitProblem" /\ gen_response.content # <<>>

\* where the first tagged marker starts
OpenAt(text) == Find(text, TAG)

\* where the next fence marker after the first tagged marker starts, 0 when
\* there is none
CloseAt(text) ==
    LET from == OpenAt(text) + Len(TAG)
        closers == {j \in from..Len(text) : IsAt(text, FENCE, j)}
    IN IF closers = {} THEN 0 ELSE CHOOSE j \in closers : \A k \in closers : j <= k

TaggedAndClosed ==
    /\ gen_response.status = "ok"
    /\ Contains(gen_response.content, TAG)
    /\ CloseAt(gen_response.content) # 0

\* C6 as stated: for a completion text with a tagged marker (and a fence
\* marker after it), what is extracted is the trimmed text between the
\* first tagged marker and the next fence marker; prompt_to_prolog returns
\* it when it has 20 characters or more.
C6_TaggedFence ==
    TaggedAndClosed =>
        LET text == gen_response.content
        IN prolog_code =
              Checked(Trimmed(SubSeq(text, OpenAt(text) + Len(TAG), CloseAt(text) - 1)))

\* C7: for a completion text without any fence marker, what is extracted is
\* the whole text without its leading and trailing whitespace;
\* prompt_to_prolog returns it when it has 20 characters or more.
C7_NoFence ==
    (gen_response.status = "ok" /\ ~Contains(gen_response.content, FENCE)) =>
        prolog_code = Checked(Trimmed(gen_response.content))

C7_Witness ==
    /\ gen_response.status = "ok"
    /\ ~Contains(gen_response.content, FENCE)
    /\ prolog_code # None
    /\ Len(prolog_code) < Len(gen_response.content)

\* C8: when the completion call of result_to_text fails (it raises or the
\* response is malformed), result_to_text returns the outcome text it was
\* given, unchanged, and the round ends Delivered, not Aborted.
C8_FallbackIsRawOutcome ==
    InterpFailed =>
        /\ natural_language_result = prolog_result
        /\ prolog_result # None
        /\ status \in {"Running", "Delivered", "Interrupted"}
        /\ (status = "Running" => pc = "Delivering")
        /\ (pc = "AwaitProblem" => status = "Delivered")

C8_Witness ==
    /\ InterpFailed
    /\ status = "Delivered"
    /\ prolog_result \notin {NEUTRAL, None}

\* C9: after a successful load, a query with zero answers makes
\* execute_prolog return the fixed neutral text, the round is not aborted,
\* and that text is what result_to_text is given.
C9_ZeroAnswersNeutral ==
    (query.status = "ok" /\ query.answers = <<>>) =>
        /\ prolog_result = NEUTRAL
        /\ Continues
        /\ (InterpFailed => natural_language_result = NEUTRAL)

C9_Witness ==
    /\ query.status = "ok" /\ query.answers = <<>>
    /\ status = "Delivered"
    /\ InterpFailed

\* C10: after a successful load, an exception raised by the query makes
\* execute_prolog return the same neutral text as a query with zero
\* answers, the round goes on to interpretation, and the outcome of a load
\* failure is a different text.
C10_QueryErrorNeutral ==
    /\ query.status = "raise" => (prolog_result = NEUTRAL /\ Continues)
    /\ LoadFailed => prolog_result # NEUTRAL

C10_Witness ==
    /\ query.status = "raise"
    /\ "query" \in Range(log)
    /\ status = "Delivered"

\* a and b are the same letter, in either case
SameLetter(a, b) ==
    \/ a = b
    \/ \E k \in 1..26 : {a, b} = {SubSeq(UpperLetters, k, k), SubSeq(LowerLetters, k, k)}

\* u is exit, quit or q in some letter case
IsExitWord(u) ==
    \E tok \in {Chars("exit"), Chars("quit"), Chars("q")} :
        Len(u) = Len(tok) /\ \A i \in 1..Len(tok) : SameLetter(u[i], tok[i])

\* C11: a line that is exit, quit or q in any letter case, once its
\* surrounding whitespace is removed, ends the loop; an empty or
\* whitespace-only line leaves the loop awaiting input and starts no round
\* (no call, no file, no load).
C11_ExitAndEmpty ==
    [][pc = "AwaitProblem" =>
          /\ IsExitWord(Trimmed(line_read')) => pc' = "Terminated"
          /\ (line_read' # None /\ Trimmed(line_read') = <<>>) =>
                 /\ pc' = "AwaitProblem"
                 /\ UNCHANGED <<rounds, log, status, files, kb, locals>>]_vars

C11_Witness ==
    /\ pc = "Terminated"
    /\ IsExitWord(Trimmed(line_read))
    /\ Trimmed(line_read) \notin ExitTokens
    /\ Trimmed(line_read) # line_read

IsPrefix(a, b) == Len(a) <= Len(b) /\ SubSeq(b, 1, Len(a)) = a

\* the calls of a round in which every stage ran
FullRound == <<"generate", "save", "consult", "query", "interpret", "deliver">>

\* the calls of a round whose load failed
LoadFailRound == <<"generate", "save", "consult", "interpret", "deliver">>

\* C12 as stated: the stages run in the order Generating, Extracting,
\* Persisting, Executing, Interpreting, each at most once, and a stage runs
\* only if every earlier stage succeeded (so Interpreting only after a load
\* that succeeded and its query).
C12_StrictOrder == IsPrefix(log, FullRound)

\* each stage of the current round ran on what the stage before it produced
StagesChained ==
    /\ "save" \in Range(log) => (gen_response.status = "ok" /\ prolog_code # None)
    /\ "consult" \in Range(log) =>
           (filepath # NoPath /\ filepath \in DOMAIN files /\ files[filepath] = prolog_code)
    /\ "query" \in Range(log) => (kb # <<>> /\ kb[Len(kb)].code = prolog_code)
    /\ "interpret" \in Range(log) => ("consult" \in Range(log) /\ prolog_result # None)

\* C12 amended: the stages run in that order, each at most once and
\* without retry: at most two completion calls (one to generate, one to
\* interpret), at most one file written, at most one load and one query;
\* a stage runs only if every earlier stage succeeded, except that
\* Interpreting also runs after a load failure in Executing.
C12_OrderedOnce ==
    [][/\ (IsPrefix(log', FullRound) \/ IsPrefix(log', LoadFailRound))
       /\ StagesChained'
       /\ files' # files =>
              /\ pc = "Persisting"
              /\ "save" \notin Range(log)
              /\ \A t \in DOMAIN files : t # Timestamp(now) => (t \in DOMAIN files' /\ files'[t] = files[t])
              /\ DOMAIN files' \subseteq DOMAIN files \cup {Timestamp(now)}]_vars

C12_Witness == log = FullRound /\ status = "Delivered" /\ rounds = 2

\* C13: when prolog.consult fails no solve(Solution) query is issued in
\* that round; the query is issued only after a load that returned, which
\* has added the round's program to the engine.
C13_NoQueryAfterFailedLoad ==
    [][(pc = "Executing" /\ pc' = "Interpreting") =>
          /\ IsPrefix(ERRPFX, prolog_result') =>
                 /\ kb' = kb
                 /\ query' = NotQueried
                 /\ log' = Append(log, "consult")
          /\ (query' # NotQueried \/ "query" \in Range(log')) =>
                 /\ kb' # <<>>
                 /\ kb'[Len(kb')] = [file |-> filepath, code |-> prolog_code]
                 /\ query'.status \in {"ok", "raise"}
                 /\ log' = log \o <<"consult", "query">>]_vars

C13_Witness ==
    /\ pc = "Interpreting"
    /\ IsPrefix(ERRPFX, prolog_result)
    /\ query = NotQueried
    /\ \E i \in 1..Len(kb) : DefinesSolve(kb[i].code)

\* the stages of a round
RoundStages == {"Generating", "Persisting", "Executing", "Interpreting", "Delivering"}

C15_OnlyGrows ==
    [][\A i \in 1..Len(kb) : \E j \in 1..Len(kb') : kb'[j] = kb[i]]_vars

\* the round failed in generation or extraction: ollama.chat raised, its
\* response was malformed, or the extracted code was under the minimum
GenerationFailed ==
    /\ gen_response # NoResponse
    /\ prolog_code = None

\* C16: a round that fails in generation or extraction changes neither the
\* files under PROLOG_DIR nor the knowledge base of the engine: no step from
\* the reading of the problem to the failed prompt_to_prolog touches them,
\* and the only call the round has made is the completion call.
C16_GenerationFailureFrame ==
    [][/\ pc \in {"AwaitProblem", "Generating"} => (files' = files /\ kb' = kb)
       /\ (pc = "Generating" /\ GenerationFailed') =>
              /\ pc' \in {"AwaitProblem", "Terminated"}
              /\ log' = <<"generate">>]_vars

C16_Witness ==
    /\ pc = "AwaitProblem"
    /\ status = "Aborted"
    /\ GenerationFailed
    /\ ShortCode
    /\ files # NoFiles
    /\ kb # <<>>

\* the text after the first generic marker, up to the next fence marker
\* after it, or up to the end of the text when there is none
GenericBody(text) ==
    LET from == Find(text, FENCE) + Len(FENCE)
        closers == {j \in from..Len(text) : IsAt(text, FENCE, j)}
        upto == IF closers = {} THEN Len(text)
                ELSE (CHOOSE j \in closers : \A k \in closers : j <= k) - 1
    IN SubSeq(text, from, upto)

\* the text after the first tagged marker
AfterTag(text) == SubSeq(text, OpenAt(text) + Len(TAG), Len(text))

\* C17: a completion text with a tagged marker anywhere is cut by the
\* tagged rule, even when a generic marker comes earlier: what is extracted
\* starts after the first tagged marker and ends before a fence marker
\* that follows it, or at the end of the text.  Only a text without any tagged
\* marker is cut by the generic rule, which extracts the trimmed text
\* between the first generic marker and the next fence marker, or the end
\* of the text when the fence is not closed.
C17_TaggedBeforeGeneric ==
    gen_response.status = "ok" =>
        LET text == gen_response.content
        IN /\ Contains(text, TAG) =>
                  \E n \in 0..Len(AfterTag(text)) :
                      /\ n = Len(AfterTag(text)) \/ IsAt(AfterTag(text), FENCE, n + 1)
                      /\ prolog_code = Checked(Trimmed(SubSeq(AfterTag(text), 1, n)))
           /\ (~Contains(text, TAG) /\ Contains(text, FENCE)) =>
                  prolog_code = Checked(Trimmed(GenericBody(text)))

C17_Witness ==
    /\ gen_response.status = "ok"
    /\ Contains(gen_response.content, TAG)
    /\ Find(gen_response.content, FENCE) < Find(gen_response.content, TAG)
    /\ prolog_code # None
    /\ prolog_code # Checked(Trimmed(GenericBody(gen_response.content)))

\* C18: the query of a round runs against everything the shared engine
\* holds, not only the round's program: after a load that returned, the
\* engine holds the programs of the earlier rounds' files as well, and the
\* answers of a query that returned are those of the latest program held
\* that defines solve/1, which is an earlier round's program when the
\* round's own program defines none.
C18_QueryOverSharedEngine ==
    [][(pc = "Executing" /\ query' # NotQueried) =>
          /\ \A i \in 1..Len(kb) :
                 kb[i].file # filepath => \E j \in 1..Len(kb') : kb'[j] = kb[i]
          /\ query'.status = "ok" =>
                 \E i \in 1..Len(kb') :
                     /\ DefinesSolve(kb'[i].code)
                     /\ \A j \in (i + 1)..Len(kb') : ~DefinesSolve(kb'[j].code)
                     /\ query'.answers = SolveAnswers(kb'[i].code)
                     /\ prolog_result' = RenderLines(OutputLines(query'.answers))
                     /\ ~DefinesSolve(prolog_code) => kb'[i].file # filepath]_vars

C18_Witness ==
    /\ rounds = 2
    /\ pc \in {"Interpreting", "Delivering"}
    /\ ~DefinesSolve(prolog_code)
    /\ kb # <<>>
    /\ kb[Len(kb)].code = prolog_code
    /\ query.status = "ok"
    /\ query.answers # <<>>
    /\ prolog_result # NEUTRAL
    /\ prolog_result = RenderLines(OutputLines(SolveAnswers(kb[1].code)))

\* save_prolog_code was called in the round and returned no path
SaveFailed == "save" \in Range(log) /\ filepath = NoPath

\* C19: when save_prolog_code returns no path the round is aborted before
\* execution: the loop is back at AwaitProblem (or has ended there), and
\* the round has made no consult, no query and no interpretation call.
C19_SaveFailureAborts ==
    SaveFailed =>
        /\ pc \in {"AwaitProblem", "Terminated"}
        /\ status = "Aborted"
        /\ log = <<"generate", "save">>
        /\ query = NotQueried
        /\ prolog_result = None
        /\ interp_response = NoResponse
        /\ natural_language_result = None

C19_Witness ==
    /\ SaveFailed
    /\ pc = "AwaitProblem"
    /\ prolog_code # None
    /\ kb # <<>>

\* C20: when input() raises an exception that is not a keyboard interrupt
\* (end of input, for one), the handler of the loop sends it back to
\* reading: the loop stays at AwaitProblem, starts no round, and changes
\* nothing else; while the reads keep failing the only way out of
\* AwaitProblem is a keyboard interrupt.
C20_ReadErrorLoops ==
    [][pc = "AwaitProblem" =>
          /\ last_read' = "error" =>
                 /\ pc' = "AwaitProblem"
                 /\ line_read' = None
                 /\ UNCHANGED <<rounds, log, status, files, kb, user_input, locals>>
          /\ (line_read' = None /\ pc' = "Terminated") => last_read' = "interrupt"]_vars

C20_Witness ==
    /\ pc = "AwaitProblem"
    /\ last_read = "error"
    /\ rounds = 0
    /\ status = "Idle"

=============================================================================
